---------------------------- MODULE Spec2Model ----------------------------
(***************************************************************************)
(* Local discovery (lib/discover/local.go): the localClient, its          *)
(* constructor NewLocal, the send loop, the receive loop, registerDevice,  *)
(* Lookup, and the address helpers addrToAddr and resolveAddrs.            *)
(*                                                                         *)
(* Strings are sequences of Unicode code points, so that formatting       *)
(* (%d, %c, %s) and parsing (SplitHostPort, Atoi, url.Parse) are computed  *)
(* and a formatted address can be parsed back.  Time is in seconds.        *)
(***************************************************************************)
EXTENDS Integers, Sequences, FiniteSets, TLC

(***************************************************************************)
(* Bounds of the model.                                                    *)
(***************************************************************************)
\* Number of bytes of a device ID in the model (protocol.DeviceID is [32]byte).
IdLen == 2
\* Packets the beacon delivers in one behaviour.
MaxPackets == 2
\* Longest announced address list.
MaxAddrs == 2

(***************************************************************************)
(* Program constants (seconds).                                            *)
(***************************************************************************)
BroadcastInterval == 30
CacheLifeTime == 3 * BroadcastInterval

\* The clock moves in jumps around the cache life time; it stops at MaxTime.
AdvanceSteps == {CacheLifeTime - 1, CacheLifeTime, CacheLifeTime + 1}
MaxTime == CacheLifeTime + 1
\* The later end of the clock for the engine that is watched for longer: two
\* jumps of one second less than the cache life time.
LongTime == 2 * (CacheLifeTime - 1)

(***************************************************************************)
(* Strings: sequences of code points.                                      *)
(***************************************************************************)
Colon == 58
Slash == 47
LBracket == 91
RBracket == 93
Digit0 == 48

IsDigit(c) == c >= Digit0 /\ c <= Digit0 + 9

\* Index of the first / last occurrence of code point c in s, 0 if none.
IndexOf(s, c) ==
  IF \E i \in 1..Len(s) : s[i] = c
  THEN CHOOSE i \in 1..Len(s) : s[i] = c /\ \A j \in 1..(i - 1) : s[j] # c
  ELSE 0

LastIndexOf(s, c) ==
  IF \E i \in 1..Len(s) : s[i] = c
  THEN CHOOSE i \in 1..Len(s) : s[i] = c /\ \A j \in (i + 1)..Len(s) : s[j] # c
  ELSE 0

\* s[from..to], empty when from > to.
Slice(s, from, to) == IF to >= from THEN SubSeq(s, from, to) ELSE <<>>

\* fmt's %d of a non-negative integer: its decimal digits.
RECURSIVE FormatD(_)
FormatD(n) == IF n < 10 THEN <<Digit0 + n>> ELSE FormatD(n \div 10) \o <<Digit0 + (n % 10)>>

\* fmt's %c of an integer: the one character with that code point.
FormatC(n) == <<n>>

\* The value of a string of decimal digits.
RECURSIVE DigitsValue(_)
DigitsValue(s) ==
  IF Len(s) = 0 THEN 0 ELSE 10 * DigitsValue(Slice(s, 1, Len(s) - 1)) + (s[Len(s)] - Digit0)

\* strconv.Atoi on an unsigned decimal: [ok, n].
Atoi(s) ==
  IF Len(s) > 0 /\ \A i \in 1..Len(s) : IsDigit(s[i])
  THEN [ok |-> TRUE, n |-> DigitsValue(s)]
  ELSE [ok |-> FALSE, n |-> 0]

\* String literals of the model.
StrTcp == <<116, 99, 112>>                                  \* "tcp"
StrSchemeSep == <<Colon, Slash, Slash>>                     \* "://"
HostEmpty == <<>>                                           \* ""
HostAny4 == <<48, 46, 48, 46, 48, 46, 48>>                  \* "0.0.0.0"
HostAny6 == <<Colon, Colon>>                                \* "::"
HostPeer4 == <<49, 48, 46, 48, 46, 48, 46, 53>>             \* "10.0.0.5"
HostPeer6 == <<102, 100, 48, 48, Colon, Colon, 53>>         \* "fd00::5"
HostSrc4 == <<49, 57, 50, 46, 48, 46, 50, 46, 53>>          \* "192.0.2.5"
HostSrc6 == <<102, 101, 56, 48, Colon, Colon, 49>>          \* "fe80::1"
HostMcast6 == <<102, 102, 49, 50, Colon, Colon, 56>>        \* "ff12::8"
StrAbc == <<97, 98, 99>>                                    \* "abc"

\* net.ParseIP on the host literals of the model: "v4", "v6", or "none".
IPFamily(h) ==
  CASE h \in {HostAny4, HostPeer4, HostSrc4} -> "v4"
    [] h \in {HostAny6, HostPeer6, HostSrc6, HostMcast6} -> "v6"
    [] OTHER -> "none"

\* net.IP.IsUnspecified.
IsUnspecified(ip) == ip \in {HostAny4, HostAny6}

\* net.JoinHostPort-free helpers: "host:port" and "[host]:port" as written.
WithPort(h, p) == h \o <<Colon>> \o p
Bracketed(h) == <<LBracket>> \o h \o <<RBracket>>

\* net.SplitHostPort: [ok, host, port].
SplitHostPort(hp) ==
  LET i == LastIndexOf(hp, Colon)
      bad == [ok |-> FALSE, host |-> <<>>, port |-> <<>>]
  IN  IF i = 0 THEN bad                                   \* missing port
      ELSE IF hp[1] = LBracket
      THEN LET e == IndexOf(hp, RBracket)
           IN  IF e = 0 \/ e + 1 # i THEN bad             \* missing ']', missing port, too many colons
               ELSE [ok |-> TRUE, host |-> Slice(hp, 2, e - 1), port |-> Slice(hp, i + 1, Len(hp))]
      ELSE LET h == Slice(hp, 1, i - 1)
           IN  IF IndexOf(h, Colon) # 0 \/ IndexOf(h, LBracket) # 0 \/ IndexOf(h, RBracket) # 0
               THEN bad                                   \* too many colons, stray bracket
               ELSE [ok |-> TRUE, host |-> h, port |-> Slice(hp, i + 1, Len(hp))]

\* net.ResolveTCPAddr("tcp", hp): [ok, IP, Port]; an empty host resolves to a
\* nil IP, an IP literal to itself, and any other name does not resolve.
ResolveTCPAddr(hp) ==
  LET sp == SplitHostPort(hp)
      pn == Atoi(sp.port)
      bad == [ok |-> FALSE, IP |-> <<>>, Port |-> 0]
  IN  IF ~sp.ok \/ ~pn.ok \/ pn.n > 65535 THEN bad
      ELSE IF sp.host = <<>> THEN [ok |-> TRUE, IP |-> <<>>, Port |-> pn.n]
      ELSE IF IPFamily(sp.host) = "none" THEN bad
      ELSE [ok |-> TRUE, IP |-> sp.host, Port |-> pn.n]

\* url.Parse of "scheme://host": [ok, Scheme, Host]; a string that starts
\* with ':' has no scheme and does not parse.
UrlParse(s) ==
  LET i == IndexOf(s, Colon)
  IN  IF i = 1 \/ Len(s) = 0 THEN [ok |-> FALSE, Scheme |-> <<>>, Host |-> <<>>]
      ELSE IF i > 1 /\ Len(s) >= i + 2 /\ s[i + 1] = Slash /\ s[i + 2] = Slash
      THEN LET rest == Slice(s, i + 3, Len(s))
               e == IndexOf(rest, Slash)
           IN  [ok |-> TRUE, Scheme |-> Slice(s, 1, i - 1),
                Host |-> IF e = 0 THEN rest ELSE Slice(rest, 1, e - 1)]
      ELSE [ok |-> TRUE, Scheme |-> <<>>, Host |-> <<>>]

\* url.URL.String of a URL with a scheme and a host.
UrlString(u) == u.Scheme \o StrSchemeSep \o u.Host


(***************************************************************************)
(* Inputs.                                                                 *)
(***************************************************************************)
RECURSIVE SeqsUpTo(_, _)
SeqsUpTo(S, n) ==
  IF n = 0 THEN {<<>>}
  ELSE LET shorter == SeqsUpTo(S, n - 1)
       IN  shorter \cup {Append(s, x) : s \in shorter, x \in S}

Bytes == {0, 1}
\* protocol.DeviceID values, and the variable-length ID field of a packet.
WireIDs == SeqsUpTo(Bytes, IdLen)
DeviceIDs == {w \in WireIDs : Len(w) = IdLen}

Port22000 == FormatD(22000)
Port443 == FormatD(443)
Uri(h, p) == StrTcp \o StrSchemeSep \o WithPort(h, p)

AddrAny4 == Uri(HostAny4, Port22000)                    \* "tcp://0.0.0.0:22000"
AddrAny6 == Uri(Bracketed(HostAny6), Port22000)         \* "tcp://[::]:22000"
AddrNoHost == Uri(HostEmpty, Port443)                   \* "tcp://:443"
AddrPeer4 == Uri(HostPeer4, Port22000)                  \* "tcp://10.0.0.5:22000"
AddrPeer6 == Uri(Bracketed(HostPeer6), Port443)         \* "tcp://[fd00::5]:443"
AddrNoPort == StrTcp \o StrSchemeSep \o HostPeer4       \* "tcp://10.0.0.5"
AddrNoScheme == WithPort(HostEmpty, Port22000)          \* ":22000"

AnnouncedAddrs == {AddrAny4, AddrAny6, AddrNoHost, AddrPeer4, AddrPeer6, AddrNoPort, AddrNoScheme}
AddrLists == SeqsUpTo(AnnouncedAddrs, MaxAddrs)

\* Source addresses of received packets are rendered as net.Addr.String() does.
SrcPort == FormatD(21027)

\* Bind specifications given to NewLocal.
BindAddrs ==
  { WithPort(HostEmpty, SrcPort),                       \* ":21027"
    WithPort(Bracketed(HostMcast6), SrcPort),           \* "[ff12::8]:21027"
    WithPort(HostEmpty, StrAbc),                        \* ":abc"
    HostSrc4,                                           \* "192.0.2.5"
    HostMcast6 }                                        \* "ff12::8"

(***************************************************************************)
(* The wire.  A datagram is described by the Announce it encodes, by how   *)
(* many of its fields (Magic, ID, Addresses, Relays) are whole in the      *)
(* buffer, and by whether the buffer ends inside the next field.           *)
(***************************************************************************)
NumFields == 4
Device(id, addrs, relays) == [ID |-> id, Addresses |-> addrs, Relays |-> relays]
Datagram(magic, dev, whole, ragged) ==
  [Magic |-> magic, This |-> dev, whole |-> whole, ragged |-> ragged]

DefaultAddrs == <<AddrAny4>>
\* The IDs this engine may have in the model: they start with a one and end with a zero byte.
MyIDs == {id \in DeviceIDs : id[1] = 1 /\ id[IdLen] = 0}
PeerWireID == CHOOSE w \in DeviceIDs : \A i \in 1..IdLen : w[i] = 1

\* A Relay{URL, Latency}; relay URLs are never parsed here.
RelayR1 == [URL |-> "relay://r1", Latency |-> 12]
Src4 == WithPort(HostSrc4, SrcPort)                     \* "192.0.2.5:21027"
Src6 == WithPort(Bracketed(HostSrc6), SrcPort)          \* "[fe80::1]:21027"

Whole(id, addrs, relays) ==
  Datagram("AnnouncementMagic", Device(id, addrs, relays), NumFields, FALSE)

\* What b.Recv() returns: a buffer and its source address.
Arrivals ==
  \* whole announcements of every sender ID
  { [buf |-> Whole(id, DefaultAddrs, <<>>), addr |-> Src4] : id \in WireIDs }
  \cup
  \* other addresses, relays, another source
  { [buf |-> Whole(PeerWireID, <<AddrPeer4, AddrNoPort>>, <<RelayR1>>), addr |-> Src4],
    [buf |-> Whole(PeerWireID, DefaultAddrs, <<>>), addr |-> Src6] }
  \cup
  \* a wrong magic
  { [buf |-> Datagram("other", Device(PeerWireID, DefaultAddrs, <<>>), NumFields, FALSE),
     addr |-> Src4] }
  \cup
  \* cut at a field boundary
  { [buf |-> Datagram("AnnouncementMagic", Device(PeerWireID, DefaultAddrs, <<>>), w, FALSE),
     addr |-> Src4] : w \in 0..(NumFields - 1) }
  \cup
  \* cut inside the address list
  { [buf |-> Datagram("AnnouncementMagic", Device(PeerWireID, DefaultAddrs, <<>>), 2, TRUE),
     addr |-> Src4] }

\* The arrivals on a network of well-behaved devices: this device's own
\* announcement, which the beacon delivers like any other, and whole
\* announcements of one peer.
PeerArrivals ==
  {a \in Arrivals : /\ a.buf = Whole(a.buf.This.ID, a.buf.This.Addresses, a.buf.This.Relays)
                    /\ Len(a.buf.This.ID) = IdLen
                    /\ a.buf.This.ID[1] = 1}

\* Announce.UnmarshalXDR: [err, pkt].  A buffer that ends inside a field fails
\* with io.ErrUnexpectedEOF, one that ends at a field boundary with io.EOF and
\* the fields read so far, a wrong magic with ErrIncorrectMagic.
UnmarshalXDR(buf) ==
  LET dev == Device(IF buf.whole >= 2 THEN buf.This.ID ELSE <<>>,
                    IF buf.whole >= 3 THEN buf.This.Addresses ELSE <<>>,
                    IF buf.whole >= 4 THEN buf.This.Relays ELSE <<>>)
      pkt == [Magic |-> IF buf.whole >= 1 THEN buf.Magic ELSE "zero", This |-> dev]
  IN  IF buf.ragged THEN [err |-> "ErrUnexpectedEOF", pkt |-> pkt]
      ELSE IF buf.whole >= 1 /\ buf.Magic # "AnnouncementMagic"
      THEN [err |-> "ErrIncorrectMagic", pkt |-> pkt]
      ELSE IF buf.whole < NumFields THEN [err |-> "EOF", pkt |-> pkt]
      ELSE [err |-> "nil", pkt |-> pkt]

\* pkt.MustMarshalXDR(): the buffer with all the fields of pkt, whole.
MarshalXDR(pkt) == Datagram(pkt.Magic, pkt.This, NumFields, FALSE)

(***************************************************************************)
(* The announcement of this device.  A time.Duration is a number of        *)
(* nanoseconds.                                                            *)
(***************************************************************************)
Millisecond == 1000000
MaxInt32 == 2147483647
MinInt32 == (0 - MaxInt32) - 1
\* Go's integer division, which truncates toward zero (b > 0).
Quo(a, b) == IF a >= 0 THEN a \div b ELSE 0 - ((0 - a) \div b)
\* int32(n) of an int64 n less than 2^32 away from the int32 range.
Int32(n) ==
  IF n > MaxInt32 THEN MinInt32 + (n - MaxInt32 - 1)
  ELSE IF n < MinInt32 THEN MaxInt32 - (MinInt32 - n - 1)
  ELSE n

\* c.relayStat.Relays()
Relays == <<"relay://r1", "relay://r2">>
\* What c.relayStat.RelayStatus(relay) may return: (latency, ok).
Latencies == {12 * Millisecond, 12 * Millisecond + 999999, 999999, 0 - (Millisecond + 500000)}
RelayStati == [latency : Latencies, ok : BOOLEAN]
RelayStats == [{Relays[i] : i \in 1..Len(Relays)} -> RelayStati]
\* The first relay answers in 12.999999 ms, the second has no latency.
DefaultStat ==
  [r \in {Relays[i] : i \in 1..Len(Relays)} |->
     IF r = Relays[1] THEN [latency |-> 12 * Millisecond + 999999, ok |-> TRUE]
     ELSE [latency |-> 0, ok |-> FALSE]]

\* What the node's addresses and relay latencies may be at one time: the
\* defaults, other addresses, or a second relay with a latency and another
\* latency of the first.
Envs ==
  { [addrs |-> DefaultAddrs, stat |-> DefaultStat],
    [addrs |-> <<AddrPeer4, AddrAny6>>, stat |-> DefaultStat],
    [addrs |-> DefaultAddrs,
     stat |-> [r \in {Relays[i] : i \in 1..Len(Relays)} |->
                 IF r = Relays[1] THEN [latency |-> 999999, ok |-> TRUE]
                 ELSE [latency |-> 12 * Millisecond, ok |-> TRUE]]] }

\* A variant of announcedRelays that announces a relay without a latency with
\* the latency -1.
RECURSIVE announcedRelaysWithSentinel(_, _, _)
announcedRelaysWithSentinel(relays, stat, i) ==
  IF i > Len(relays) THEN <<>>
  ELSE <<[URL |-> relays[i],
          Latency |-> IF stat[relays[i]].ok
                      THEN Int32(Quo(stat[relays[i]].latency, Millisecond))
                      ELSE 0 - 1]>>
       \o announcedRelaysWithSentinel(relays, stat, i + 1)

\* The loop of announcementPkt over c.relayStat.Relays(), from the i-th relay on.
RECURSIVE announcedRelays(_, _, _)
announcedRelays(relays, stat, i) ==
  IF i > Len(relays) THEN <<>>
  ELSE (IF stat[relays[i]].ok
        THEN <<[URL |-> relays[i],
                Latency |-> Int32(Quo(stat[relays[i]].latency, Millisecond))]>>
        ELSE <<>>)
       \o announcedRelays(relays, stat, i + 1)

announcementPkt(my, addrs, relays, stat) ==
  [Magic |-> "AnnouncementMagic", This |-> Device(my, addrs, announcedRelays(relays, stat, 1))]


(***************************************************************************)
(* State.                                                                  *)
(***************************************************************************)
VARIABLES
  myID,         \* c.myID
  bindAddr,     \* the addr argument of NewLocal
  ctor,         \* where NewLocal is: "init", "goSend", "return", "done", "failed"
  name,         \* c.name
  beacon,       \* c.beacon: "none", "broadcast", "multicast"
  supervised,   \* whether c.Add(c.beacon) has registered the beacon
  recvPc,       \* recvAnnouncements: "none", "recv" (in b.Recv), "signal" (in the channel send)
  sendPc,       \* sendLocalAnnouncements: "none", "start", "send", "wait" (in the select)
  now,          \* the clock
  tickPending,  \* a tick waits in localBcastTick (a channel of capacity one)
  cache,        \* c.cache: DeviceID -> CacheEntry, defined on the IDs ever Set
  events,       \* what events.Default.Log was given
  nRecv,        \* packets b.Recv has returned
  nSends,       \* calls of c.beacon.Send
  last,         \* the last step: its operation, inputs and results
  addrList,     \* what c.addrList.AllAddresses() returns now
  relayStat,    \* what c.relayStat.RelayStatus(relay) returns now, for every relay
  msg,          \* the msg of sendLocalAnnouncements
  nBuilt,       \* calls of c.announcementPkt
  sent,         \* what c.beacon.Send was given, in order
  nTicks,       \* receives from localBcastTick
  nForced,      \* receives from forcedBcastTick
  heard,        \* by cache key, the last packet registerDevice was called with, where
                \* the receive loop is followed step by step
  nNew,         \* calls of registerDevice that returned true
  frame,        \* id and device of the call of registerDevice that is between c.Set and Log
  pure          \* input and result of the helper functions called on their own

\* The environment the announcement is built from, the send loop's own
\* state, and the receive loop's.
envVars == <<addrList, relayStat>>
sendVars == <<msg, nBuilt, sent, nTicks, nForced>>
recvVars == <<heard, nNew, frame>>

vars == <<myID, bindAddr, ctor, name, beacon, supervised, recvPc, sendPc, now,
          tickPending, cache, events, nRecv, nSends, last, envVars, sendVars,
          recvVars, pure>>

engineVars == <<myID, bindAddr, ctor, name, beacon, supervised, recvPc, sendPc, now,
                tickPending, cache, events, nRecv, nSends, last, envVars, sendVars,
                recvVars>>

NoDevice == Device(<<>>, <<>>, <<>>)
NoFrame == [id |-> <<>>, device |-> NoDevice]
NoDatagram == Datagram("zero", NoDevice, 0, FALSE)
\* op: "idle", "Lookup" or "Recv".  Of a Lookup: id (the argument), direct and
\* relays (the results).  Of a received packet: buf and src (what b.Recv
\* returned), err and dev (what UnmarshalXDR made of it), registered (whether
\* registerDevice was called), and of that call id (the cache key), existed
\* and age (c.Get's ok and time.Since(ce.when)) and newDevice (its result).
Step(op) ==
  [op |-> op, id |-> <<>>, buf |-> NoDatagram, src |-> <<>>, err |-> "nil",
   dev |-> NoDevice, registered |-> FALSE, existed |-> FALSE, age |-> 0,
   newDevice |-> FALSE, direct |-> <<>>, relays |-> <<>>]
\* What last holds after a step that is neither a Lookup nor a received packet.
Idle == Step("idle")
NoTCPAddr == [IP |-> <<>>, Port |-> 0]
\* A helper called on its own: fn names it, addrs, src, tcp and stat are its
\* arguments, done says whether it has returned, out is its result; of
\* registerDevice, out is the Direct it has stored, found whether the cache
\* has the record, and isNew what it returned; of announcementPkt, addrs and
\* stat are what the address lister and the relay status provider answer.
PureCall(fn, addrs, src, tcp) ==
  [fn |-> fn, addrs |-> addrs, src |-> src, tcp |-> tcp, stat |-> DefaultStat,
   done |-> FALSE, out |-> <<>>, found |-> FALSE, isNew |-> FALSE]
NoPure == PureCall("none", <<>>, <<>>, NoTCPAddr)

InitEngine ==
  /\ myID \in MyIDs
  /\ bindAddr \in BindAddrs
  /\ ctor = "init"
  /\ name = ""
  /\ beacon = "none"
  /\ supervised = FALSE
  /\ recvPc = "none"
  /\ sendPc = "none"
  /\ now = 0
  /\ tickPending = FALSE
  /\ cache = <<>>
  /\ events = <<>>
  /\ nRecv = 0
  /\ nSends = 0
  /\ last = Idle
  /\ addrList = DefaultAddrs
  /\ relayStat = DefaultStat
  /\ msg = NoDatagram
  /\ nBuilt = 0
  /\ sent = <<>>
  /\ nTicks = 0
  /\ nForced = 0
  /\ heard = <<>>
  /\ frame = NoFrame
  /\ nNew = 0

Init == InitEngine /\ pure = NoPure

(***************************************************************************)
(* The cache (c.Get, c.Set).                                               *)
(***************************************************************************)
CacheEntry(direct, relays, when) ==
  [Direct |-> direct, Relays |-> relays, when |-> when, found |-> TRUE]
NoEntry == [Direct |-> <<>>, Relays |-> <<>>, when |-> 0, found |-> FALSE]

\* c.Get(id): (entry, ok)
CacheHas(c, id) == id \in DOMAIN c
CacheGet(c, id) == IF CacheHas(c, id) THEN c[id] ELSE NoEntry
\* c.Set(id, entry)
CacheSet(c, id, e) == [k \in DOMAIN c \cup {id} |-> IF k = id THEN e ELSE c[k]]


(***************************************************************************)
(* NewLocal.                                                               *)
(***************************************************************************)
\* A variant of BindMode that does not look at strconv.Atoi's error.
BindModeUncheckedPort(addr) ==
  LET sp == SplitHostPort(addr)
  IN  IF ~sp.ok THEN "error"
      ELSE IF Len(sp.host) = 0 THEN "broadcast"
      ELSE "multicast"

\* What NewLocal makes of its addr argument: "error", "broadcast" or "multicast".
BindMode(addr) ==
  LET sp == SplitHostPort(addr)
  IN  IF ~sp.ok THEN "error"
      ELSE IF Len(sp.host) = 0
      THEN IF Atoi(sp.port).ok THEN "broadcast" ELSE "error"
      ELSE "multicast"

\* NewLocal up to and including startLocalIPv4Broadcasts / startLocalIPv6Multicasts,
\* which registers the beacon and starts the receive loop.
NewLocal ==
  /\ ctor = "init"
  /\ LET mode == BindMode(bindAddr)
     IN  IF mode = "error"
         THEN /\ ctor' = "failed"
              /\ UNCHANGED <<name, beacon, supervised, recvPc>>
         ELSE /\ ctor' = "goSend"
              /\ name' = (IF mode = "broadcast" THEN "IPv4 local" ELSE "IPv6 local")
              /\ beacon' = mode
              /\ supervised' = TRUE
              /\ recvPc' = "recv"
  /\ last' = Idle
  /\ UNCHANGED <<myID, bindAddr, sendPc, now, tickPending, cache, events, nRecv, nSends, pure, envVars, sendVars, recvVars>>

\* go c.sendLocalAnnouncements()
NewLocalGoSend ==
  /\ ctor = "goSend"
  /\ ctor' = "return"
  /\ sendPc' = "start"
  /\ last' = Idle
  /\ UNCHANGED <<myID, bindAddr, name, beacon, supervised, recvPc, now, tickPending,
                 cache, events, nRecv, nSends, pure, envVars, sendVars, recvVars>>

\* return c, nil
NewLocalReturn ==
  /\ ctor = "return"
  /\ ctor' = "done"
  /\ last' = Idle
  /\ UNCHANGED <<myID, bindAddr, name, beacon, supervised, recvPc, sendPc, now,
                 tickPending, cache, events, nRecv, nSends, pure, envVars, sendVars, recvVars>>

(***************************************************************************)
(* Time: the clock and the ticker made by time.Tick(BroadcastInterval).    *)
(***************************************************************************)
AdvanceWithin(d, horizon) ==
  /\ ctor \notin {"init", "failed"}
  /\ now + d <= horizon
  /\ now' = now + d
  /\ tickPending' = (tickPending \/ (now + d) \div BroadcastInterval > now \div BroadcastInterval)
  /\ last' = Idle
  /\ UNCHANGED <<myID, bindAddr, ctor, name, beacon, supervised, recvPc, sendPc,
                 cache, events, nRecv, nSends, pure, envVars, sendVars, recvVars>>

Advance(d) == AdvanceWithin(d, MaxTime)

(***************************************************************************)
(* Lookup.                                                                 *)
(***************************************************************************)
\* A variant of LookupFresh that takes an entry of age CacheLifeTime as fresh.
LookupFreshInclusive(when, t) == t - when <= CacheLifeTime

\* time.Since(cache.when) < CacheLifeTime
LookupFresh(when, t) == t - when < CacheLifeTime

LookupResult(c, device, t) ==
  LET e == CacheGet(c, device)
  IN  IF CacheHas(c, device) /\ LookupFresh(e.when, t)
      THEN [direct |-> e.Direct, relays |-> e.Relays]
      ELSE [direct |-> <<>>, relays |-> <<>>]

\* A variant of Lookup that drops the entry it finds too old.
LookupEvicting ==
  /\ ctor = "done"
  /\ \E device \in DeviceIDs :
       LET r == LookupResult(cache, device, now)
       IN  /\ last' = [Step("Lookup") EXCEPT !.id = device, !.direct = r.direct,
                                             !.relays = r.relays]
           /\ cache' = IF CacheHas(cache, device) /\ ~LookupFresh(cache[device].when, now)
                       THEN [k \in DOMAIN cache \ {device} |-> cache[k]]
                       ELSE cache
  /\ UNCHANGED <<myID, bindAddr, ctor, name, beacon, supervised, recvPc, sendPc, now,
                 tickPending, events, nRecv, nSends, pure, envVars, sendVars, recvVars>>

Lookup ==
  /\ ctor = "done"
  /\ \E device \in DeviceIDs :
       LET r == LookupResult(cache, device, now)
       IN  last' = [Step("Lookup") EXCEPT !.id = device, !.direct = r.direct, !.relays = r.relays]
  /\ UNCHANGED <<myID, bindAddr, ctor, name, beacon, supervised, recvPc, sendPc, now,
                 tickPending, cache, events, nRecv, nSends, pure, envVars, sendVars, recvVars>>

(***************************************************************************)
(* The send loop.                                                          *)
(***************************************************************************)
\* pkt = c.announcementPkt(); msg = pkt.MustMarshalXDR()
SendLoopStart ==
  /\ sendPc = "start"
  /\ sendPc' = "send"
  /\ msg' = MarshalXDR(announcementPkt(myID, addrList, Relays, relayStat))
  /\ nBuilt' = nBuilt + 1
  /\ last' = Idle
  /\ UNCHANGED <<myID, bindAddr, ctor, name, beacon, supervised, recvPc, now,
                 tickPending, cache, events, nRecv, nSends, pure, envVars, sent, nTicks, nForced, recvVars>>

\* A variant of BeaconSend that builds and encodes the packet anew for every Send.
BeaconSendRebuilding ==
  /\ sendPc = "send"
  /\ sendPc' = "wait"
  /\ nSends' = nSends + 1
  /\ nBuilt' = nBuilt + 1
  /\ sent' = Append(sent, MarshalXDR(announcementPkt(myID, addrList, Relays, relayStat)))
  /\ last' = Idle
  /\ UNCHANGED <<myID, bindAddr, ctor, name, beacon, supervised, recvPc, now,
                 tickPending, cache, events, nRecv, pure, envVars, msg, nTicks, nForced, recvVars>>

\* c.beacon.Send(msg), then into the select
BeaconSend ==
  /\ sendPc = "send"
  /\ sendPc' = "wait"
  /\ nSends' = nSends + 1
  /\ sent' = Append(sent, msg)
  /\ last' = Idle
  /\ UNCHANGED <<myID, bindAddr, ctor, name, beacon, supervised, recvPc, now,
                 tickPending, cache, events, nRecv, pure, envVars, msg, nBuilt, nTicks, nForced, recvVars>>

\* case <-c.localBcastTick
TickWake ==
  /\ sendPc = "wait"
  /\ tickPending
  /\ tickPending' = FALSE
  /\ nTicks' = nTicks + 1
  /\ sendPc' = "send"
  /\ last' = Idle
  /\ UNCHANGED <<myID, bindAddr, ctor, name, beacon, supervised, recvPc, now,
                 cache, events, nRecv, nSends, pure, envVars, msg, nBuilt, sent, nForced, recvVars>>

\* A variant of ForcedWake that goes back into the select without sending.
ForcedWakeNoSend ==
  /\ sendPc = "wait"
  /\ recvPc = "signal"
  /\ sendPc' = "wait"
  /\ recvPc' = "recv"
  /\ nForced' = nForced + 1
  /\ last' = Idle
  /\ UNCHANGED <<myID, bindAddr, ctor, name, beacon, supervised, now, tickPending,
                 cache, events, nRecv, nSends, pure, envVars, msg, nBuilt, sent, nTicks, recvVars>>

\* A variant of ForcedWake whose select looks at forcedBcastTick only once the
\* ticker has fired.
ForcedWakeAfterTick ==
  /\ tickPending
  /\ sendPc = "wait"
  /\ recvPc = "signal"
  /\ sendPc' = "send"
  /\ recvPc' = "recv"
  /\ nForced' = nForced + 1
  /\ last' = Idle
  /\ UNCHANGED <<myID, bindAddr, ctor, name, beacon, supervised, now, tickPending,
                 cache, events, nRecv, nSends, pure, envVars, msg, nBuilt, sent, nTicks, recvVars>>

\* case <-c.forcedBcastTick, together with the receive loop's
\* c.forcedBcastTick <- time.Now(): the channel is unbuffered.
ForcedWake ==
  /\ sendPc = "wait"
  /\ recvPc = "signal"
  /\ sendPc' = "send"
  /\ recvPc' = "recv"
  /\ nForced' = nForced + 1
  /\ last' = Idle
  /\ UNCHANGED <<myID, bindAddr, ctor, name, beacon, supervised, now, tickPending,
                 cache, events, nRecv, nSends, pure, envVars, msg, nBuilt, sent, nTicks, recvVars>>


(***************************************************************************)
(* registerDevice.                                                         *)
(***************************************************************************)
\* var id protocol.DeviceID; copy(id[:], device.ID): the first IdLen bytes,
\* zero where the field is shorter.
CopyID(wire) ==
  CHOOSE id \in DeviceIDs :
    \A i \in 1..IdLen : id[i] = (IF i <= Len(wire) THEN wire[i] ELSE 0)

\* A variant of IsNewDevice that compares with BroadcastInterval.
IsNewDeviceShortLife(existsAlready, when, t) == ~existsAlready \/ t - when > BroadcastInterval

\* isNewDevice := !existsAlready || time.Since(ce.when) > CacheLifeTime
IsNewDevice(existsAlready, when, t) == ~existsAlready \/ t - when > CacheLifeTime

\* One turn of the loop over device.Addresses: what it appends to validAddresses.
ValidAddress(addr, src) ==
  LET u == UrlParse(addr)
      tcpAddr == ResolveTCPAddr(u.Host)
      sp == SplitHostPort(src)
  IN  IF ~u.ok THEN <<>>
      ELSE IF ~tcpAddr.ok THEN <<>>
      ELSE IF Len(tcpAddr.IP) = 0 \/ IsUnspecified(tcpAddr.IP)
      THEN IF ~sp.ok THEN <<>>
           ELSE <<UrlString([u EXCEPT !.Host = sp.host \o <<Colon>> \o FormatD(tcpAddr.Port)])>>
      ELSE <<addr>>

\* A variant of ValidAddresses that leaves the loop at the first address
\* that gives nothing.
RECURSIVE ValidAddressesUntilError(_, _)
ValidAddressesUntilError(addrs, src) ==
  IF Len(addrs) = 0 \/ ValidAddress(Head(addrs), src) = <<>> THEN <<>>
  ELSE ValidAddress(Head(addrs), src) \o ValidAddressesUntilError(Tail(addrs), src)

RECURSIVE ValidAddresses(_, _)
ValidAddresses(addrs, src) ==
  IF Len(addrs) = 0 THEN <<>>
  ELSE ValidAddress(Head(addrs), src) \o ValidAddresses(Tail(addrs), src)

\* A variant of RegisterDevice that logs the addresses it has stored.
RegisterDeviceLoggingValid(c, ev, src, device, t) ==
  LET id == CopyID(device.ID)
      isNewDevice == IsNewDevice(CacheHas(c, id), CacheGet(c, id).when, t)
  IN  [cache |-> CacheSet(c, id, CacheEntry(ValidAddresses(device.Addresses, src), device.Relays, t)),
       events |-> IF isNewDevice
                  THEN Append(ev, [device |-> id,
                                   addrs |-> ValidAddresses(device.Addresses, src),
                                   relays |-> device.Relays])
                  ELSE ev,
       isNewDevice |-> isNewDevice]

\* A variant of RegisterDevice that keeps the addresses of the record it finds
\* in front of the new ones.
RegisterDeviceMerging(c, ev, src, device, t) ==
  LET id == CopyID(device.ID)
      isNewDevice == IsNewDevice(CacheHas(c, id), CacheGet(c, id).when, t)
  IN  [cache |-> CacheSet(c, id, CacheEntry(CacheGet(c, id).Direct
                                              \o ValidAddresses(device.Addresses, src),
                                            device.Relays, t)),
       events |-> IF isNewDevice
                  THEN Append(ev, [device |-> id, addrs |-> device.Addresses,
                                   relays |-> device.Relays])
                  ELSE ev,
       isNewDevice |-> isNewDevice]

\* registerDevice(src, device) at time t: the cache and the events after it,
\* and its result.
RegisterDevice(c, ev, src, device, t) ==
  LET id == CopyID(device.ID)
      isNewDevice == IsNewDevice(CacheHas(c, id), CacheGet(c, id).when, t)
  IN  [cache |-> CacheSet(c, id, CacheEntry(ValidAddresses(device.Addresses, src), device.Relays, t)),
       events |-> IF isNewDevice
                  THEN Append(ev, [device |-> id, addrs |-> device.Addresses,
                                   relays |-> device.Relays])
                  ELSE ev,
       isNewDevice |-> isNewDevice]

(***************************************************************************)
(* The receive loop.                                                       *)
(***************************************************************************)
\* The record of the calls of registerDevice: under the cache key id, the
\* source, addresses and relays of the last call and its time.
Heard(h, id, src, device, t) ==
  [k \in DOMAIN h \cup {id} |->
     IF k = id
     THEN [src |-> src, addrs |-> device.Addresses, relays |-> device.Relays, at |-> t]
     ELSE h[k]]

\* err != nil && err != io.EOF
DecodeFailed(err) == err # "nil" /\ err # "EOF"

\* A variant of IsSelf with the comparison inverted.
IsSelfInverted(wire, my) == wire # my

\* bytes.Compare(pkt.This.ID, c.myID[:]) == 0
IsSelf(wire, my) == wire = my

\* A variant of AfterRegister whose send on forcedBcastTick never blocks.
AfterRegisterNoWait(newDevice) == "recv"

\* if newDevice { c.forcedBcastTick <- time.Now() }: where the loop is after
\* registerDevice has returned newDevice.
AfterRegister(newDevice) == IF newDevice THEN "signal" ELSE "recv"

\* One turn of the loop, from b.Recv() returning (buf, addr) to the next
\* b.Recv() or to the send on forcedBcastTick.
RecvFrom(arrivals) ==
  /\ recvPc = "recv"
  /\ nRecv < MaxPackets
  /\ \E a \in arrivals :
       LET buf == a.buf
           addr == a.addr
           d == UnmarshalXDR(buf)
           dev == d.pkt.This
           reg == RegisterDevice(cache, events, addr, dev, now)
           id == CopyID(dev.ID)
           step == [Step("Recv") EXCEPT !.buf = buf, !.src = addr, !.err = d.err]
       IN  IF DecodeFailed(d.err)
           THEN /\ last' = step
                /\ UNCHANGED <<cache, events, recvPc, recvVars>>
           ELSE IF IsSelf(dev.ID, myID)
           THEN /\ last' = [step EXCEPT !.dev = dev]
                /\ UNCHANGED <<cache, events, recvPc, recvVars>>
           ELSE /\ cache' = reg.cache
                /\ events' = reg.events
                /\ recvPc' = AfterRegister(reg.isNewDevice)
                /\ nNew' = (IF reg.isNewDevice THEN nNew + 1 ELSE nNew)
                /\ UNCHANGED <<heard, frame>>
                /\ last' = [step EXCEPT !.dev = dev, !.id = id, !.registered = TRUE,
                                        !.existed = CacheHas(cache, id),
                                        !.age = now - CacheGet(cache, id).when,
                                        !.newDevice = reg.isNewDevice]
  /\ nRecv' = nRecv + 1
  /\ UNCHANGED <<myID, bindAddr, ctor, name, beacon, supervised, sendPc, now,
                 tickPending, nSends, pure, envVars, sendVars>>

RecvAnnouncements == RecvFrom(Arrivals)

(***************************************************************************)
(* The receive loop in smaller steps: registerDevice up to its c.Set, and  *)
(* then its Log, with the other goroutines running in between.             *)
(***************************************************************************)
\* A variant of SetBeforeLog that leaves the cache as it is: the write comes later.
SetAfterLog(old, new) == old

\* The cache after c.Set(id, CacheEntry{...}), which stands before the Log.
SetBeforeLog(old, new) == new

\* One turn of the loop from b.Recv() returning to c.Set in registerDevice,
\* and on to the next b.Recv() if there is nothing to log.
RecvAndSet ==
  /\ recvPc = "recv"
  /\ nRecv < MaxPackets
  /\ \E a \in Arrivals :
       LET d == UnmarshalXDR(a.buf)
           dev == d.pkt.This
           reg == RegisterDevice(cache, events, a.addr, dev, now)
           id == CopyID(dev.ID)
           step == [Step("Recv") EXCEPT !.buf = a.buf, !.src = a.addr, !.err = d.err]
       IN  IF DecodeFailed(d.err)
           THEN /\ last' = step
                /\ UNCHANGED <<cache, recvPc, recvVars>>
           ELSE IF IsSelf(dev.ID, myID)
           THEN /\ last' = [step EXCEPT !.dev = dev]
                /\ UNCHANGED <<cache, recvPc, recvVars>>
           ELSE /\ cache' = SetBeforeLog(cache, reg.cache)
                /\ recvPc' = (IF reg.isNewDevice THEN "log" ELSE "recv")
                /\ frame' = (IF reg.isNewDevice THEN [id |-> id, device |-> dev] ELSE NoFrame)
                /\ heard' = Heard(heard, id, a.addr, dev, now)
                /\ nNew' = (IF reg.isNewDevice THEN nNew + 1 ELSE nNew)
                /\ last' = [step EXCEPT !.dev = dev, !.id = id, !.registered = TRUE,
                                        !.existed = CacheHas(cache, id),
                                        !.age = now - CacheGet(cache, id).when,
                                        !.newDevice = reg.isNewDevice]
  /\ nRecv' = nRecv + 1
  /\ UNCHANGED <<myID, bindAddr, ctor, name, beacon, supervised, sendPc, now,
                 tickPending, events, nSends, pure, envVars, sendVars>>

\* events.Default.Log(events.DeviceDiscovered, ...), return isNewDevice, and
\* on to the send on forcedBcastTick.
RegisterLog ==
  /\ recvPc = "log"
  /\ events' = Append(events, [device |-> frame.id, addrs |-> frame.device.Addresses,
                                relays |-> frame.device.Relays])
  /\ recvPc' = AfterRegister(TRUE)
  /\ frame' = NoFrame
  /\ last' = Idle
  /\ UNCHANGED <<myID, bindAddr, ctor, name, beacon, supervised, sendPc, now,
                 tickPending, cache, nRecv, nSends, pure, envVars, sendVars, heard, nNew>>

(***************************************************************************)
(* The engine.                                                             *)
(***************************************************************************)
Next ==
  \/ NewLocal
  \/ NewLocalGoSend
  \/ NewLocalReturn
  \/ \E d \in AdvanceSteps : Advance(d)
  \/ Lookup
  \/ SendLoopStart
  \/ BeaconSend
  \/ TickWake
  \/ ForcedWake
  \/ RecvAnnouncements

Spec == Init /\ [][Next]_vars

(***************************************************************************)
(* The engine with the receive loop in smaller steps.                      *)
(***************************************************************************)
NextSteps ==
  \/ NewLocal
  \/ NewLocalGoSend
  \/ NewLocalReturn
  \/ \E d \in AdvanceSteps : Advance(d)
  \/ Lookup
  \/ SendLoopStart
  \/ BeaconSend
  \/ TickWake
  \/ ForcedWake
  \/ RecvAndSet
  \/ RegisterLog

SpecSteps == Init /\ [][NextSteps]_vars

(***************************************************************************)
(* The engine under a fair scheduler and a beacon whose Send returns: the  *)
(* goroutine that runs NewLocal reaches its go statement, the send loop    *)
(* builds its packet and comes back from every Send, and a select that is  *)
(* ready to receive from forcedBcastTick again and again receives from it. *)
(* Nothing obliges a packet to arrive, the clock to move or the caller to  *)
(* call Lookup.                                                            *)
(***************************************************************************)
FairSpec ==
  /\ Init
  /\ [][Next]_vars
  /\ WF_vars(NewLocalGoSend)
  /\ WF_vars(SendLoopStart)
  /\ WF_vars(BeaconSend)
  /\ SF_vars(ForcedWake)

(***************************************************************************)
(* The engine in broadcast mode, watched until LongTime, with the receive  *)
(* loop in smaller steps.                                                  *)
(***************************************************************************)
InitLong == Init /\ bindAddr = WithPort(HostEmpty, SrcPort)

NextLong ==
  \/ NewLocal
  \/ NewLocalGoSend
  \/ NewLocalReturn
  \/ \E d \in AdvanceSteps : AdvanceWithin(d, LongTime)
  \/ Lookup
  \/ SendLoopStart
  \/ BeaconSend
  \/ TickWake
  \/ ForcedWake
  \/ RecvAndSet
  \/ RegisterLog

SpecLong == InitLong /\ [][NextLong]_vars

(***************************************************************************)
(* The engine in broadcast mode on a node whose addresses and relay        *)
(* latencies change while it runs, among well-behaved devices.             *)
(***************************************************************************)
\* AllAddresses() and RelayStatus() answer differently from now on.
EnvChange ==
  /\ ctor \notin {"init", "failed"}
  /\ \E e \in Envs :
       /\ <<e.addrs, e.stat>> # <<addrList, relayStat>>
       /\ addrList' = e.addrs
       /\ relayStat' = e.stat
  /\ last' = Idle
  /\ UNCHANGED <<myID, bindAddr, ctor, name, beacon, supervised, recvPc, sendPc, now,
                 tickPending, cache, events, nRecv, nSends, pure, sendVars, recvVars>>

NextSend ==
  \/ NewLocal
  \/ NewLocalGoSend
  \/ NewLocalReturn
  \/ \E d \in AdvanceSteps : Advance(d)
  \/ Lookup
  \/ SendLoopStart
  \/ BeaconSend
  \/ TickWake
  \/ ForcedWake
  \/ RecvFrom(PeerArrivals)
  \/ EnvChange

SpecSend == InitLong /\ [][NextSend]_vars


(***************************************************************************)
(* addrToAddr and resolveAddrs.  A net.TCPAddr is [IP, Port], the IP given *)
(* by its text (empty for a nil IP).                                       *)
(***************************************************************************)
addrToAddr(addr) ==
  IF Len(addr.IP) = 0 \/ IsUnspecified(addr.IP)
  THEN <<Colon>> \o FormatC(addr.Port)
  ELSE IF IPFamily(addr.IP) = "v4"
  THEN addr.IP \o <<Colon>> \o FormatC(addr.Port)
  ELSE IF IPFamily(addr.IP) = "v6"
  THEN Bracketed(addr.IP) \o <<Colon>> \o FormatC(addr.Port)
  ELSE <<>>

\* One turn of the loop of resolveAddrs: what it appends to raddrs.
resolveAddr(addrStr) ==
  LET uri == UrlParse(addrStr)
      addrRes == ResolveTCPAddr(uri.Host)
      addr == addrToAddr(addrRes)
  IN  IF ~uri.ok THEN <<>>
      ELSE IF ~addrRes.ok THEN <<>>
      ELSE IF Len(addr) > 0 THEN <<UrlString([uri EXCEPT !.Host = addr])>>
      ELSE <<>>

RECURSIVE resolveAddrs(_)
resolveAddrs(addrs) ==
  IF Len(addrs) = 0 THEN <<>>
  ELSE resolveAddr(Head(addrs)) \o resolveAddrs(Tail(addrs))

(***************************************************************************)
(* The helpers on their own: the argument is drawn at the start, and one   *)
(* step calls the function.                                                *)
(***************************************************************************)
\* An IP that is neither 4 nor 16 bytes long prints as "?".
HostBadIP == <<63>>
TCPAddrs ==
  { [IP |-> ip, Port |-> p] :
      ip \in {HostEmpty, HostAny4, HostAny6, HostPeer4, HostPeer6, HostBadIP},
      p \in {22000, 443, 80} }

PureCalls ==
  { PureCall("registerDevice", a, src, NoTCPAddr) : a \in AddrLists, src \in {Src4, Src6} }
  \cup { PureCall("resolveAddrs", a, <<>>, NoTCPAddr) : a \in AddrLists }
  \cup { PureCall("addrToAddr", <<>>, <<>>, t) : t \in TCPAddrs }
  \cup { [PureCall("announcementPkt", DefaultAddrs, <<>>, NoTCPAddr) EXCEPT !.stat = st] :
           st \in RelayStats }

InitPure == InitEngine /\ pure \in PureCalls

\* registerDevice(src, device) on an empty cache: the Direct it stores.
CallRegisterDevice ==
  /\ pure.fn = "registerDevice" /\ ~pure.done
  /\ LET r == RegisterDevice(<<>>, <<>>, pure.src, Device(PeerWireID, pure.addrs, <<>>), 0)
     IN  pure' = [pure EXCEPT !.done = TRUE,
                              !.out = CacheGet(r.cache, CopyID(PeerWireID)).Direct,
                              !.found = CacheGet(r.cache, CopyID(PeerWireID)).found,
                              !.isNew = r.isNewDevice]
  /\ UNCHANGED engineVars

CallResolveAddrs ==
  /\ pure.fn = "resolveAddrs" /\ ~pure.done
  /\ pure' = [pure EXCEPT !.done = TRUE, !.out = resolveAddrs(pure.addrs)]
  /\ UNCHANGED engineVars

CallAddrToAddr ==
  /\ pure.fn = "addrToAddr" /\ ~pure.done
  /\ pure' = [pure EXCEPT !.done = TRUE, !.out = addrToAddr(pure.tcp)]
  /\ UNCHANGED engineVars

CallAnnouncementPkt ==
  /\ pure.fn = "announcementPkt" /\ ~pure.done
  /\ pure' = [pure EXCEPT !.done = TRUE,
                          !.out = announcementPkt(myID, pure.addrs, Relays, pure.stat)]
  /\ UNCHANGED engineVars

NextPure == CallRegisterDevice \/ CallResolveAddrs \/ CallAddrToAddr \/ CallAnnouncementPkt

SpecPure == InitPure /\ [][NextPure]_vars


(***************************************************************************)
(* Properties.                                                             *)
(***************************************************************************)
\* A step of the receive loop that took a packet from the beacon.
Received == nRecv' = nRecv + 1
\* The packet of that step decoded to a whole announcement of another device.
ReceivedValid == Received /\ last'.err = "nil" /\ last'.dev.ID # myID
\* The discovery event of device id with the announced addresses and relays.
EventOf(id, dev) == [device |-> id, addrs |-> dev.Addresses, relays |-> dev.Relays]
\* The step published one event and went to offer the forced-broadcast signal.
Announced(id, dev) == events' = Append(events, EventOf(id, dev)) /\ recvPc' = "signal"
\* The step published nothing and offered no signal.
Quiet == events' = events /\ recvPc' = recvPc

C2_SelfExclusion ==
  [][(Received /\ ~DecodeFailed(last'.err) /\ last'.dev.ID = myID)
       => (cache' = cache /\ Quiet)]_vars

\* The engine has received its own whole announcement and not registered it.
C2_Witness ==
  /\ last.op = "Recv"
  /\ last.err = "nil"
  /\ last.dev.ID = myID
  /\ ~last.registered
  /\ recvPc = "recv"

\* C3 (own ID never cached): whatever the ID fields of the packets received,
\* the cache has no entry under the engine's own ID, and Lookup of the own ID
\* is empty.
C3_OwnIdNeverCached ==
  /\ myID \notin DOMAIN cache
  /\ LookupResult(cache, myID, now) = [direct |-> <<>>, relays |-> <<>>]

\* C4 (newly-discovered trigger): the first whole announcement of another
\* device X publishes exactly one event and offers exactly one signal; one
\* processed less than CacheLifeTime after the previous one of X does neither.
C4_NewlyDiscoveredTrigger ==
  [][ReceivedValid =>
       LET id == CopyID(last'.dev.ID)
       IN  /\ id \notin DOMAIN cache => Announced(id, last'.dev)
           /\ (id \in DOMAIN cache /\ now - cache[id].when < CacheLifeTime) => Quiet]_vars

\* A second announcement of a device, one second short of CacheLifeTime after
\* the first, that published nothing and left the receive loop receiving.
C4_Witness ==
  /\ last.op = "Recv"
  /\ last.err = "nil"
  /\ last.registered
  /\ last.existed
  /\ last.age = CacheLifeTime - 1
  /\ ~last.newDevice
  /\ Len(events) = 1
  /\ recvPc = "recv"

\* C5 (newly discovered exactly when Lookup would be empty): a whole
\* announcement of another device is treated as newly discovered (event,
\* signal) exactly when the cache has no record of it or the record's age is
\* at least CacheLifeTime.
C5_NewExactlyWhenStale ==
  [][ReceivedValid =>
       LET id == CopyID(last'.dev.ID)
           stale == id \notin DOMAIN cache \/ now - cache[id].when >= CacheLifeTime
       IN  IF stale THEN Announced(id, last'.dev) ELSE Quiet]_vars

\* C6 (decode robustness): a datagram that is cut short or has a wrong magic
\* leaves the cache and the events unchanged, offers no signal, and leaves
\* the receive loop receiving.
Malformed(buf) == buf.ragged \/ buf.whole < NumFields \/ buf.Magic # "AnnouncementMagic"
C6_DecodeRobustness ==
  [][(Received /\ Malformed(last'.buf))
       => (cache' = cache /\ events' = events /\ recvPc' = "recv")]_vars

\* C8 (construction error): with a bind specification that does not split
\* into host and port, or with an empty host and a port that is no number,
\* NewLocal fails, and no loop runs and no beacon is made or registered.
BadBindSpec(addr) ==
  \/ ~SplitHostPort(addr).ok
  \/ SplitHostPort(addr).host = <<>> /\ ~Atoi(SplitHostPort(addr).port).ok
C8_ConstructionError ==
  BadBindSpec(bindAddr) =>
    /\ ctor \in {"init", "failed"}
    /\ recvPc = "none" /\ sendPc = "none"
    /\ beacon = "none" /\ ~supervised
    /\ nRecv = 0 /\ nSends = 0

\* NewLocal has failed on a bind specification that splits, with an empty
\* host and the port "abc".
C8_Witness ==
  /\ ctor = "failed"
  /\ SplitHostPort(bindAddr).ok
  /\ SplitHostPort(bindAddr).port = StrAbc

\* C9 (Lookup is a pure read): a Lookup changes neither the cache nor the
\* events, sends nothing and offers no signal; the cache changes only in a
\* step of the receive loop; and no cache key is ever removed.
C9_LookupPureRead ==
  [][/\ last'.op = "Lookup" =>
          UNCHANGED <<cache, events, nSends, nRecv, recvPc, sendPc, tickPending, now>>
     /\ cache' # cache => Received
     /\ DOMAIN cache \subseteq DOMAIN cache']_vars

\* A Lookup of a record older than CacheLifeTime: answered with nothing, and
\* the record is still in the cache.
C9_Witness ==
  /\ last.op = "Lookup"
  /\ last.id \in DOMAIN cache
  /\ now - cache[last.id].when > CacheLifeTime
  /\ last.direct = <<>> /\ last.relays = <<>>


\* C7 (address fallback): of the announced addresses that parse and resolve,
\* in their order, one whose host is empty or unspecified is registered as an
\* address with the host of the packet's source and the announced port, and
\* one whose host is specific is registered as announced.
Resolves(a) == UrlParse(a).ok /\ ResolveTCPAddr(UrlParse(a).Host).ok
HasFallbackForm(announced, src, registered) ==
  LET want == ResolveTCPAddr(UrlParse(announced).Host)
      got == ResolveTCPAddr(UrlParse(registered).Host)
  IN  IF Len(want.IP) = 0 \/ IsUnspecified(want.IP)
      THEN /\ UrlParse(registered).ok /\ got.ok
           /\ UrlParse(registered).Scheme = UrlParse(announced).Scheme
           /\ got.IP = SplitHostPort(src).host
           /\ got.Port = want.Port
      ELSE registered = announced
C7_AddressFallback ==
  (pure.fn = "registerDevice" /\ pure.done) =>
    LET kept == SelectSeq(pure.addrs, Resolves)
    IN  /\ Len(pure.out) = Len(kept)
        /\ \A i \in 1..Len(kept) : HasFallbackForm(kept[i], pure.src, pure.out[i])

\* C10 (canonical form): addrToAddr renders an address with port P as
\* "host:P" for an IPv4 host, "[host]:P" for an IPv6 host and ":P" for an
\* empty or unspecified host, P in decimal, and anything else as ""; so every
\* address resolveAddrs returns has a host and port that resolve to the
\* address it was made from.
Canonical(addr) ==
  IF Len(addr.IP) = 0 \/ IsUnspecified(addr.IP) THEN <<Colon>> \o FormatD(addr.Port)
  ELSE IF IPFamily(addr.IP) = "v4" THEN addr.IP \o <<Colon>> \o FormatD(addr.Port)
  ELSE IF IPFamily(addr.IP) = "v6" THEN Bracketed(addr.IP) \o <<Colon>> \o FormatD(addr.Port)
  ELSE <<>>
C10_CanonicalForm ==
  /\ (pure.fn = "addrToAddr" /\ pure.done) => pure.out = Canonical(pure.tcp)
  /\ (pure.fn = "resolveAddrs" /\ pure.done) =>
       LET kept == SelectSeq(pure.addrs, Resolves)
       IN  /\ Len(pure.out) = Len(kept)
           /\ \A i \in 1..Len(kept) :
                /\ UrlParse(pure.out[i]).Scheme = UrlParse(kept[i]).Scheme
                /\ UrlParse(pure.out[i]).Host = Canonical(ResolveTCPAddr(UrlParse(kept[i]).Host))

\* C11 (construction before announcements): nothing has been sent on the
\* beacon and no packet has been taken from it by the receive loop unless
\* NewLocal has returned the engine to its caller.
C11_ConstructionFirst ==
  (nSends > 0 \/ nRecv > 0) => ctor = "done"

\* C12 (overwrite): a whole announcement of another device X leaves under X's
\* key exactly the addresses registerDevice keeps of that announcement, its
\* relays and the time of processing, whatever the record held before, and
\* touches no other key; and as long as the last packet registered for X is
\* less than CacheLifeTime old, Lookup(X) returns the content of that packet.
ContentOf(h) == [direct |-> ValidAddresses(h.addrs, h.src), relays |-> h.relays]
C13_SynchronousSignal ==
  /\ [][/\ recvPc = "signal" =>
             (nRecv' = nRecv /\ cache' = cache /\ events' = events /\ nNew' = nNew)
        /\ (recvPc = "signal" /\ recvPc' # "signal") =>
             (nForced' = nForced + 1 /\ sendPc = "wait" /\ sendPc' = "send")
        /\ nForced' # nForced => (recvPc = "signal" /\ recvPc' = "recv")]_vars
  /\ [](nNew = nForced + (IF recvPc = "signal" THEN 1 ELSE 0))

\* The second newly discovered device of a behaviour: its signal is on offer,
\* the first has been received, and the send loop is busy sending.
C13_Witness ==
  /\ nNew = 2
  /\ nForced = 1
  /\ recvPc = "signal"
  /\ sendPc = "send"

\* C14 (liveness of the forced re-broadcast): under FairSpec, whenever the
\* receive loop offers the signal of a newly discovered device, the send loop
\* eventually receives it and is about to send, with the receive loop back in
\* b.Recv(); and a send loop that is about to send eventually has sent and
\* waits in its select.
C14_ForcedLiveness ==
  /\ (recvPc = "signal") ~> (recvPc = "recv" /\ sendPc = "send")
  /\ (sendPc = "send") ~> (sendPc = "wait")

\* The signal of a device discovered before NewLocal returned has been
\* received and the forced announcement sent, with no tick in between.
C14_Witness ==
  /\ ctor = "return"
  /\ nRecv = 1
  /\ nNew = 1
  /\ nForced = 1
  /\ nTicks = 0
  /\ nSends = 2
  /\ recvPc = "recv"
  /\ sendPc = "wait"

\* C15 (built once): announcementPkt is called once, when the send loop
\* starts, with the addresses and relay latencies of that moment; msg never
\* changes afterwards; and every Send, after a tick or a forced signal, is
\* given that msg, whatever the addresses and latencies have become.
Built == MarshalXDR(announcementPkt(myID, addrList, Relays, relayStat))
C15_BuiltOnce ==
  /\ [][/\ nBuilt' # nBuilt => (sendPc = "start" /\ nBuilt' = 1 /\ msg' = Built)
        /\ nBuilt' = nBuilt => msg' = msg
        /\ nSends' # nSends => sent' = Append(sent, msg)]_vars
  /\ [](/\ nBuilt = (IF sendPc \in {"none", "start"} THEN 0 ELSE 1)
        /\ Len(sent) = nSends
        /\ \A i \in 1..Len(sent) : sent[i] = msg)

\* Three sends, one after a tick and one after a forced signal, all of the
\* message built at the start, on a node whose addresses or latencies are no
\* longer those of the message.
C15_Witness ==
  /\ Len(sent) = 3
  /\ nTicks = 1
  /\ nForced = 1
  /\ sent[3] = sent[1]
  /\ msg # Built

\* C16 (send cadence): the send loop sends first without waiting for
\* anything, and then once for every receive from localBcastTick or from
\* forcedBcastTick and never otherwise.  Counting a Send as made when it
\* returns: a send loop waiting in its select has made 1 + ticks received +
\* forced signals received sends, one that is about to send or is sending has
\* made one less, and one that has not started has made none; a wake-up
\* receives exactly one tick or one forced signal; and the forced signals
\* received never exceed the registrations that returned true.
C16_SendCadence ==
  /\ [](/\ sendPc \in {"none", "start"} => (nSends = 0 /\ nTicks = 0 /\ nForced = 0)
        /\ sendPc = "send" => nSends = nTicks + nForced
        /\ sendPc = "wait" => nSends = 1 + nTicks + nForced
        /\ nForced <= nNew)
  /\ [][/\ nSends' # nSends => (nSends' = nSends + 1 /\ sendPc = "send" /\ sendPc' = "wait")
        /\ (sendPc = "start" /\ sendPc' # sendPc) =>
             (sendPc' = "send" /\ nTicks' = 0 /\ nForced' = 0)
        /\ (sendPc = "wait" /\ sendPc' # sendPc) =>
             /\ sendPc' = "send"
             /\ \/ nTicks' = nTicks + 1 /\ nForced' = nForced /\ tickPending /\ ~tickPending'
                \/ nForced' = nForced + 1 /\ nTicks' = nTicks /\ recvPc = "signal"
        /\ (nTicks' # nTicks \/ nForced' # nForced) => (sendPc = "wait" /\ sendPc' = "send")]_vars

\* Three sends made, the first at the start, one after a tick and one after
\* the signal of the first of two newly discovered devices; the signal of the
\* second is on offer and not yet received.
C16_Witness ==
  /\ sendPc = "wait"
  /\ nSends = 3
  /\ nTicks = 1
  /\ nForced = 1
  /\ nNew = 2
  /\ recvPc = "signal"

\* C17 (partial success): registerDevice stores one address for every
\* announced address that parses and resolves, in the announced order, each
\* made from the announced address at its place (the address itself, or, for
\* an empty or unspecified host, an address of the same scheme ending in the
\* announced port), and none for the others; and it writes the record and
\* decides on newly discovered also when it has dropped every address.
EndsWith(s, t) == Len(s) >= Len(t) /\ SubSeq(s, Len(s) - Len(t) + 1, Len(s)) = t
ComesFrom(announced, registered) ==
  LET a == ResolveTCPAddr(UrlParse(announced).Host)
  IN  IF Len(a.IP) = 0 \/ IsUnspecified(a.IP)
      THEN /\ UrlParse(registered).Scheme = UrlParse(announced).Scheme
           /\ EndsWith(registered, <<Colon>> \o FormatD(a.Port))
      ELSE registered = announced
C17_PartialSuccess ==
  (pure.fn = "registerDevice" /\ pure.done) =>
    LET kept == SelectSeq(pure.addrs, Resolves)
    IN  /\ pure.found
        /\ pure.isNew
        /\ Len(pure.out) = Len(kept)
        /\ \A i \in 1..Len(kept) : ComesFrom(kept[i], pure.out[i])

\* An announcement of an address without a port followed by a good one: the
\* record holds the good one alone.
C17_Witness ==
  /\ pure.fn = "registerDevice"
  /\ pure.done
  /\ pure.addrs = <<AddrNoPort, AddrPeer4>>
  /\ pure.out = <<AddrPeer4>>
  /\ pure.found

\* C18 (announced relays): the Relays of the packet announcementPkt builds are
\* the relays of c.relayStat.Relays() whose RelayStatus is ok, in that order
\* and no others, each with the whole milliseconds of its latency, the
\* fraction cut off.
WholeMilliseconds(d, m) ==
  IF d >= 0 THEN m * Millisecond <= d /\ d < (m + 1) * Millisecond
  ELSE (m - 1) * Millisecond < d /\ d <= m * Millisecond
HasLatency(r) == pure.stat[r].ok
C18_AnnouncedRelays ==
  (pure.fn = "announcementPkt" /\ pure.done) =>
    LET avail == SelectSeq(Relays, HasLatency)
        got == pure.out.This.Relays
    IN  /\ Len(got) = Len(avail)
        /\ \A i \in 1..Len(avail) :
             /\ got[i].URL = avail[i]
             /\ WholeMilliseconds(pure.stat[avail[i]].latency, got[i].Latency)

\* The first relay has no latency and the second one of 12.999999 ms: the
\* packet announces the second alone, with latency 12.
C18_Witness ==
  /\ pure.fn = "announcementPkt"
  /\ pure.done
  /\ ~pure.stat[Relays[1]].ok
  /\ pure.stat[Relays[2]] = [latency |-> 12 * Millisecond + 999999, ok |-> TRUE]
  /\ pure.out.This.Relays = <<[URL |-> Relays[2], Latency |-> 12]>>

\* C19 (discovery event): a call of registerDevice logs one event when it
\* returns true and none when it returns false; the event carries the cache
\* key, the addresses as announced and the relays as announced; nothing else
\* logs an event; so there are as many events as calls that returned true.
C19_EventIffNew ==
  /\ [][/\ (Received /\ last'.registered) =>
             IF last'.newDevice
             THEN events' = Append(events, [device |-> last'.id,
                                            addrs |-> last'.dev.Addresses,
                                            relays |-> last'.dev.Relays])
             ELSE events' = events
        /\ events' # events => (Received /\ last'.registered /\ last'.newDevice)]_vars
  /\ [](Len(events) = nNew)

\* A newly discovered device that announced a good address and one without a
\* port: the event carries both, the record only the good one.
C19_Witness ==
  /\ last.op = "Recv"
  /\ last.registered
  /\ last.newDevice
  /\ Len(events) = 1
  /\ events[1] = [device |-> last.id, addrs |-> <<AddrPeer4, AddrNoPort>>,
                  relays |-> <<RelayR1>>]
  /\ cache[last.id].Direct = <<AddrPeer4>>

\* C20 (write before event and signal): from the moment registerDevice is
\* about to log the event of a newly discovered device X until the send loop
\* has received the signal, the cache holds X's record of that announcement,
\* and a Lookup(X) by any caller returns its registered addresses and relays
\* as long as the record is younger than CacheLifeTime; the event is logged
\* only in such a state.
Registered(id, device) ==
  /\ id \in DOMAIN cache
  /\ id \in DOMAIN heard
  /\ cache[id].when = heard[id].at
  /\ now - heard[id].at < CacheLifeTime =>
       LookupResult(cache, id, now) =
         [direct |-> ValidAddresses(device.Addresses, heard[id].src), relays |-> device.Relays]
C20_WriteBeforeAnnounce ==
  /\ [](/\ recvPc = "log" => Registered(frame.id, frame.device)
        /\ recvPc = "signal" =>
             /\ Len(events) > 0
             /\ Registered(events[Len(events)].device,
                           Device(<<>>, events[Len(events)].addrs, events[Len(events)].relays)))
  /\ [][events' # events =>
          /\ recvPc = "log"
          /\ events'[Len(events')].device = frame.id
          /\ Registered(frame.id, frame.device)]_vars

\* A caller's Lookup between c.Set and the Log of a newly discovered device:
\* the event is not yet logged and the Lookup has returned the device's
\* registered addresses.
C20_Witness ==
  /\ recvPc = "log"
  /\ events = <<>>
  /\ last.op = "Lookup"
  /\ last.id = frame.id
  /\ last.direct = ValidAddresses(frame.device.Addresses, heard[frame.id].src)
  /\ last.direct # <<>>

=============================================================================
